---- MODULE Spec2Model ----
(***************************************************************************)
(* Model of scripts/check_log_optimization.py: the per-file scanner        *)
(* (LogOptimizationChecker.check_file), the directory scan that merges     *)
(* per-file results (scan_directory) and the summary (get_summary).        *)
(*                                                                         *)
(* Text is modelled character by character: a string is a sequence of      *)
(* one-character strings, a file is a sequence of such lines (each ending  *)
(* in "\n", as readlines() returns them).  The three regular expressions   *)
(* of check_file are operators over these sequences.                       *)
(***************************************************************************)
EXTENDS Integers, Sequences, FiniteSets, TLC

(***************************************************************************)
(* Bounds of the model.                                                    *)
(***************************************************************************)
\* longest file (in lines) of the single-file specification SpecFile
MaxLines == 3
\* most files present in the tree of the directory specification Spec
MaxFiles == 2
\* most scan_directory calls on one checker object
MaxScans == 2
\* longest file (in lines) of the nested-guard specification SpecNested
MaxNestedLines == 5
\* longest text (in characters) between the parentheses of the log calls
\* of the placeholder specification SpecText
MaxTextLen == 5

(***************************************************************************)
(* Characters and small text helpers.                                      *)
(***************************************************************************)
\* Python's None (and, for text, the empty string: both are falsy)
None == <<>>

\* The texts of the model are over the characters U+0000..U+00FF; the
\* classes below are the classes of Python's re for str patterns (Unicode
\* aware: no re.ASCII flag) on these characters.

\* characters matched by \s: tab, newline, U+000B, form feed, carriage
\* return, U+001C..U+001F, space, U+0085, U+00A0
WhiteSpaceChars == <<
    "\t","\n","","\f","\r","","","",""," ",""," ">>

WhiteSpace == {WhiteSpaceChars[k] : k \in DOMAIN WhiteSpaceChars}

\* the characters str.lower() changes, and what it changes them to
UpperAlpha == <<
    "A","B","C","D","E","F","G","H","I","J","K","L","M","N","O","P",
    "Q","R","S","T","U","V","W","X","Y","Z","À","Á","Â","Ã","Ä","Å",
    "Æ","Ç","È","É","Ê","Ë","Ì","Í","Î","Ï","Ð","Ñ","Ò","Ó","Ô","Õ",
    "Ö","Ø","Ù","Ú","Û","Ü","Ý","Þ">>
LowerAlpha == <<
    "a","b","c","d","e","f","g","h","i","j","k","l","m","n","o","p",
    "q","r","s","t","u","v","w","x","y","z","à","á","â","ã","ä","å",
    "æ","ç","è","é","ê","ë","ì","í","î","ï","ð","ñ","ò","ó","ô","õ",
    "ö","ø","ù","ú","û","ü","ý","þ">>
DigitsUnderscore == <<"0","1","2","3","4","5","6","7","8","9","_">>

\* the letters and numeric characters without an upper-case form or a
\* lower-case form of another character
OtherAlnum == <<
    "ª","²","³","µ","¹","º","¼","½","¾","ß","ÿ">>

Range(s) == {s[k] : k \in DOMAIN s}

\* characters matched by \w: str.isalnum() or "_"
WordChars ==
    Range(LowerAlpha) \cup Range(UpperAlpha) \cup Range(DigitsUnderscore)
        \cup Range(OtherAlnum)

\* str.lower() on one character, then on a string
LowerChar(c) ==
    IF c \in Range(UpperAlpha)
    THEN LowerAlpha[CHOOSE k \in DOMAIN UpperAlpha : UpperAlpha[k] = c]
    ELSE c

lower(s) == [k \in DOMAIN s |-> LowerChar(s[k])]

\* str.count(c) for a one-character c
count(s, c) == Cardinality({k \in DOMAIN s : s[k] = c})

\* the text w occurs in s starting at position p
HasAt(s, p, w) ==
    /\ p >= 1
    /\ p + Len(w) - 1 <= Len(s)
    /\ \A k \in 1..Len(w) : s[p + k - 1] = w[k]

\* `w in s`: substring test
Contains(s, w) == \E p \in 1..(Len(s) + 1) : HasAt(s, p, w)

\* first position >= p of s that is not in the class cls (Len(s)+1 if none):
\* where a greedy run cls* starting at p ends
RECURSIVE SkipClass(_, _, _)
SkipClass(s, p, cls) ==
    IF p <= Len(s) /\ s[p] \in cls THEN SkipClass(s, p + 1, cls) ELSE p

\* s[:n]
Prefix(s, n) == SubSeq(s, 1, IF Len(s) < n THEN Len(s) ELSE n)

(***************************************************************************)
(* The patterns of check_file.                                             *)
(***************************************************************************)
\* the alternation (trace|debug|info|warn|error), in the pattern's order
LevelNames == <<
    <<"t","r","a","c","e">>,
    <<"d","e","b","u","g">>,
    <<"i","n","f","o">>,
    <<"w","a","r","n">>,
    <<"e","r","r","o","r">>
>>

\* the alternative k of log_pattern matches at the start of the line:
\* ^\s*(name)!\s*\(
LogAlternativeMatches(line, k) ==
    LET p == SkipClass(line, 1, WhiteSpace)
        n == LevelNames[k]
        q == SkipClass(line, p + Len(n) + 1, WhiteSpace)
    IN  /\ HasAt(line, p, n)
        /\ HasAt(line, p + Len(n), <<"!">>)
        /\ HasAt(line, q, <<"(">>)

\* log_pattern.match(line): group(1), or None when the line does not match
log_pattern_match(line) ==
    LET hits == {k \in DOMAIN LevelNames : LogAlternativeMatches(line, k)}
    IN  IF hits = {} THEN None
        ELSE LevelNames[CHOOSE k \in hits : \A h \in hits : k <= h]

\* a faulty variant: the pattern lost its closing part and accepts any "{"
format_arg_open_brace_only(s) == \E a \in 1..Len(s) : s[a] = "{"

\* a faulty variant: the pattern asks for a character between the braces
format_arg_nonempty_only(s) ==
    \E a \in 1..Len(s) :
        /\ s[a] = "{"
        /\ \E b \in (a + 2)..Len(s) :
              /\ s[b] = "}"
              /\ \A k \in (a + 1)..(b - 1) : s[k] # "}"

\* format_arg_pattern.search(s) is not None:  \{[^}]*\}  occurs in s
format_arg_pattern_search(s) ==
    \E a \in 1..Len(s) :
        /\ s[a] = "{"
        /\ \E b \in (a + 1)..Len(s) :
              /\ s[b] = "}"
              /\ \A k \in (a + 1)..(b - 1) : s[k] # "}"

kw_if == <<"i","f">>
kw_log_path == <<"l","o","g",":",":">>
kw_log_enabled == <<"l","o","g","_","e","n","a","b","l","e","d","!">>
kw_level_path == <<"l","o","g",":",":","L","e","v","e","l",":",":">>

\* log_enabled_pattern matched at position p of the line: group(2), else None
\*   if\s+(log::)?log_enabled!\s*\(\s*log::Level::(\w+)\s*\)
log_enabled_pattern_at(line, p) ==
    LET p1 == p + Len(kw_if)
        q1 == SkipClass(line, p1, WhiteSpace)
        q2 == IF HasAt(line, q1, kw_log_path) THEN q1 + Len(kw_log_path) ELSE q1
        q3 == SkipClass(line, q2 + Len(kw_log_enabled), WhiteSpace)
        q4 == SkipClass(line, q3 + 1, WhiteSpace)
        q5 == q4 + Len(kw_level_path)
        q6 == SkipClass(line, q5, WordChars)
        q7 == SkipClass(line, q6, WhiteSpace)
    IN  IF /\ HasAt(line, p, kw_if)
           /\ q1 > p1
           /\ HasAt(line, q2, kw_log_enabled)
           /\ HasAt(line, q3, <<"(">>)
           /\ HasAt(line, q4, kw_level_path)
           /\ q6 > q5
           /\ HasAt(line, q7, <<")">>)
        THEN SubSeq(line, q5, q6 - 1)
        ELSE None

\* log_enabled_pattern.search(line): group(2) of the leftmost match, or None
log_enabled_pattern_search(line) ==
    LET hits == {p \in 1..Len(line) : log_enabled_pattern_at(line, p) # None}
    IN  IF hits = {} THEN None
        ELSE CHOOSE m \in {log_enabled_pattern_at(line, p) :
                            p \in {q \in hits : \A h \in hits : q <= h}} : TRUE

(***************************************************************************)
(* Path classification (is_hot_path, is_test_file) and path arithmetic.    *)
(***************************************************************************)
HOT_PATH_PATTERNS == <<
    <<"d","a","e","m","o","n","/","s","r","c","/","c","o","r","e","/","b","l","o","c","k","c","h","a","i","n",".","r","s">>,
    <<"d","a","e","m","o","n","/","s","r","c","/","c","o","r","e","/","s","t","a","t","e","/">>,
    <<"d","a","e","m","o","n","/","s","r","c","/","c","o","r","e","/","m","e","m","p","o","o","l",".","r","s">>,
    <<"d","a","e","m","o","n","/","s","r","c","/","p","2","p","/","m","o","d",".","r","s">>,
    <<"d","a","e","m","o","n","/","s","r","c","/","p","2","p","/","c","o","n","n","e","c","t","i","o","n",".","r","s">>,
    <<"d","a","e","m","o","n","/","s","r","c","/","p","2","p","/","c","h","a","i","n","_","s","y","n","c","/">>,
    <<"d","a","e","m","o","n","/","s","r","c","/","p","2","p","/","p","e","e","r","_","l","i","s","t","/">>,
    <<"d","a","e","m","o","n","/","s","r","c","/","c","o","r","e","/","s","t","o","r","a","g","e","/">>,
    <<"c","o","m","m","o","n","/","s","r","c","/","t","r","a","n","s","a","c","t","i","o","n","/","v","e","r","i","f","y","/">>
>>

SKIP_PATTERNS == <<
    <<"/","t","e","s","t","s","/">>,
    <<"/","t","e","s","t","_">>,
    <<"_","t","e","s","t",".","r","s">>,
    <<"/","e","x","a","m","p","l","e","s","/">>,
    <<"/","b","e","n","c","h","e","s","/">>
>>

is_hot_path(file_path) ==
    \E k \in DOMAIN HOT_PATH_PATTERNS : Contains(file_path, HOT_PATH_PATTERNS[k])

\* a faulty variant: only the file-name suffix '_test.rs' marks test code
is_test_file_suffix_only(file_path) ==
    Contains(file_path, SKIP_PATTERNS[3])

is_test_file(file_path) ==
    \E k \in DOMAIN SKIP_PATTERNS : Contains(file_path, SKIP_PATTERNS[k])

\* the current directory, as Path('.') prints it
DotDir == <<".">>

\* the text of root_dir ends with "/": pathlib keeps a final slash only in
\* the roots "/" and "//"
EndsWithSlash(root) == Len(root) >= 1 /\ root[Len(root)] = "/"

\* str(root_dir / rel): pathlib drops a leading "." component and puts no
\* second "/" after a root that ends with one
JoinPath(root, rel) ==
    IF root = DotDir THEN rel
    ELSE IF EndsWithSlash(root) THEN root \o rel
    ELSE root \o <<"/">> \o rel

\* str(file_path.relative_to(root_dir)) for a file_path found under root_dir
RelativeTo(file_path, root) ==
    IF root = DotDir THEN file_path
    ELSE IF EndsWithSlash(root)
    THEN SubSeq(file_path, Len(root) + 1, Len(file_path))
    ELSE SubSeq(file_path, Len(root) + 2, Len(file_path))

\* the glob '*.rs' of rglob
RustSuffix == <<".","r","s">>

IsRustFile(rel) ==
    /\ Len(rel) >= Len(RustSuffix)
    /\ HasAt(rel, Len(rel) - Len(RustSuffix) + 1, RustSuffix)

\* the fragment scan_directory tests for
TargetFragment == <<"/","t","a","r","g","e","t","/">>

\* a faulty variant: the module is the first path segment alone
ModuleOfFirstSegment(file_path) ==
    LET slashes == {k \in DOMAIN file_path : file_path[k] = "/"}
    IN  IF slashes = {} THEN file_path
        ELSE SubSeq(file_path, 1, (CHOOSE k \in slashes : \A h \in slashes : k <= h) - 1)

\* log.file_path.split('/'), then '/'.join(parts[:2]) or parts[0]:
\* the path up to (not including) its second '/', or all of it
ModuleOf(file_path) ==
    LET slashes == {k \in DOMAIN file_path : file_path[k] = "/"}
        second  == {k \in slashes : Cardinality({h \in slashes : h < k}) = 1}
    IN  IF second = {} THEN file_path
        ELSE SubSeq(file_path, 1, (CHOOSE k \in second : TRUE) - 1)

(***************************************************************************)
(* Inputs: the lines files are made of, and the paths of the tree.         *)
(***************************************************************************)
\* if log::log_enabled!(log::Level::Debug) {
LnGuardDebug == <<"i","f"," ","l","o","g",":",":","l","o","g","_","e","n","a","b","l","e","d","!","(","l","o","g",":",":","L","e","v","e","l",":",":","D","e","b","u","g",")"," ","{","\n">>
\* } else if log_enabled!(log::Level::Debug) {
LnElseIfGuardDebug == <<"}"," ","e","l","s","e"," ","i","f"," ","l","o","g","_","e","n","a","b","l","e","d","!","(","l","o","g",":",":","L","e","v","e","l",":",":","D","e","b","u","g",")"," ","{","\n">>
\* if log_enabled!(log::Level::Debug) { f(); }
LnGuardDebugOneLine == <<"i","f"," ","l","o","g","_","e","n","a","b","l","e","d","!","(","l","o","g",":",":","L","e","v","e","l",":",":","D","e","b","u","g",")"," ","{"," ","f","(",")",";"," ","}","\n">>
\* if log_enabled!(log::Level::Debug)
LnGuardDebugNoBrace == <<"i","f"," ","l","o","g","_","e","n","a","b","l","e","d","!","(","l","o","g",":",":","L","e","v","e","l",":",":","D","e","b","u","g",")","\n">>
\*   debug!("{}",x);
LnDebugFmt == <<" "," ","d","e","b","u","g","!","(","\"","{","}","\"",",","x",")",";","\n">>
\* debug!("m");
LnDebugPlain == <<"d","e","b","u","g","!","(","\"","m","\"",")",";","\n">>
\* debug!(
LnDebugOpen == <<"d","e","b","u","g","!","(","\n">>
\* "{}",x);
LnFmtClose == <<"\"","{","}","\"",",","x",")",";","\n">>
\* info!("{}",x);
LnInfoFmt == <<"i","n","f","o","!","(","\"","{","}","\"",",","x",")",";","\n">>
\* {
LnOpenBrace == <<"{","\n">>
\* }
LnCloseBrace == <<"}","\n">>
\* debug!("{}",x); if log_enabled!(log::Level::Debug) {
LnDebugThenGuard == <<"d","e","b","u","g","!","(","\"","{","}","\"",",","x",")",";"," ","i","f"," ","l","o","g","_","e","n","a","b","l","e","d","!","(","l","o","g",":",":","L","e","v","e","l",":",":","D","e","b","u","g",")"," ","{","\n">>
\* "xxx...x",    (a string literal of 196 x, 200 characters with the newline)
LnLongText == <<"\"">> \o [n \in 1..196 |-> "x"] \o <<"\"", ",", "\n">>

\* debug!("{}",x); }
LnDebugFmtThenClose == <<"d","e","b","u","g","!","(","\"","{","}","\"",",","x",")",";"," ","}","\n">>
\* if log_enabled!(log::Level::Trace) {
LnGuardTrace == <<"i","f"," ","l","o","g","_","e","n","a","b","l","e","d","!","(","l","o","g",":",":","L","e","v","e","l",":",":","T","r","a","c","e",")"," ","{","\n">>

\* debug!("{}",
LnDebugFmtOpen == <<"d","e","b","u","g","!","(","\"","{","}","\"",",","\n">>

LineCatalogue == {
    LnGuardDebug, LnElseIfGuardDebug, LnGuardDebugOneLine, LnGuardDebugNoBrace,
    LnDebugFmt, LnDebugPlain, LnDebugOpen, LnFmtClose, LnInfoFmt,
    LnOpenBrace, LnCloseBrace, LnDebugThenGuard, LnLongText, LnGuardTrace,
    LnDebugFmtThenClose
}

\* the lines of which files with nested guard blocks are made
NestedCatalogue == {
    LnGuardDebug, LnGuardTrace, LnCloseBrace, LnDebugFmt, LnDebugOpen,
    LnFmtClose
}

\* the characters of which the texts given to the placeholder pattern are
\* made, and the texts of at most n of them
BraceAlphabet == {"{", "}", "x"}

TextsUpTo(n) == UNION {[1..k -> BraceAlphabet] : k \in 0..n}

\* t);   the line that ends a log call whose arguments are the text t
ArgumentsLine(t) == t \o <<")", ";", "\n">>

\* the files whose only log call is debug!( on one line and the text t on
\* the next, alone or after a Trace guard opener
TextFiles ==
    {<<LnDebugOpen, ArgumentsLine(t)>> : t \in TextsUpTo(MaxTextLen)}
        \cup {<<LnGuardTrace, LnDebugOpen, ArgumentsLine(t)>> : t \in TextsUpTo(MaxTextLen)}

\* all files of at most n lines over a set of lines
\* the lines of which well-formed and malformed files are made: a guard
\* opener, a log call that its own line leaves open, a line that closes the
\* call, a line that closes a block
LiveCatalogue == {LnGuardTrace, LnDebugFmtOpen, LnFmtClose, LnCloseBrace}

FilesUpTo(cat, n) == UNION {[1..k -> cat] : k \in 0..n}

\* m.rs
PathMain == <<"m",".","r","s">>
\* daemon/src/core/mempool.rs
PathMempool == <<"d","a","e","m","o","n","/","s","r","c","/","c","o","r","e","/","m","e","m","p","o","o","l",".","r","s">>
\* a/tests/t.rs
PathTest == <<"a","/","t","e","s","t","s","/","t",".","r","s">>
\* target/x.rs
PathTarget == <<"t","a","r","g","e","t","/","x",".","r","s">>

PathCatalogue == {PathMain, PathMempool, PathTest, PathTarget}

\* /w
RootAbs == <<"/","w">>

RootCatalogue == {DotDir, RootAbs}

\* contents of the files of a scanned tree
FileOneDebug == <<LnDebugFmt>>
FileInfoDebug == <<LnInfoFmt, LnDebugOpen, LnFmtClose>>
FileGuarded == <<LnGuardDebug, LnDebugFmt, LnCloseBrace>>
\* a file that ends inside a guard block
FileOpenGuard == <<LnGuardDebug, LnDebugFmt>>

FileCatalogue == {FileOneDebug, FileInfoDebug, FileGuarded, FileOpenGuard}

(***************************************************************************)
(* State.                                                                  *)
(***************************************************************************)
VARIABLES
    \* the file system: the root given to the checker, whether it is an
    \* existing directory, and the files below it (relative path -> content)
    root_dir, root_ok, tree,
    \* LogOptimizationChecker: self.files, self.total_logs
    files, total_logs,
    \* scan_directory: the files of rust_files not yet iterated over
    rust_files,
    \* check_file: its parameter, locals and return value
    file_path, rel_path, is_hot, is_test, lines, stats,
    in_log_enabled_block, brace_depth, log_enabled_level,
    i, level, full_statement, paren_depth, j, result,
    \* position in the code, and who called check_file ("scan" or "direct")
    pc, caller,
    \* scan_directory calls completed on this checker, and the summaries
    \* handed out by get_summary after each of them (scan number, summary)
    scans, reports

fsVars == <<root_dir, root_ok, tree>>
checkerVars == <<files, total_logs>>
trackerVars == <<in_log_enabled_block, brace_depth, log_enabled_level>>
joinerVars == <<level, full_statement, paren_depth, j>>
callVars == <<file_path, rel_path, is_hot, is_test, lines>>
clientVars == <<scans, reports>>

vars == <<root_dir, root_ok, tree, files, total_logs, rust_files,
          file_path, rel_path, is_hot, is_test, lines, stats,
          in_log_enabled_block, brace_depth, log_enabled_level,
          i, level, full_statement, paren_depth, j, result,
          pc, caller, scans, reports>>

\* a file of the tree: its lines, and whether open()/readlines() succeeds
FileEntries ==
    {[lines |-> f, readable |-> TRUE] : f \in FileCatalogue}
        \cup {[lines |-> FileOneDebug, readable |-> FALSE]}

\* the trees of at most MaxFiles files
Trees ==
    UNION {[S -> FileEntries] :
              S \in {T \in SUBSET PathCatalogue : Cardinality(T) <= MaxFiles}}

\* no check_file call is in progress: its locals do not exist
NoCall ==
    /\ file_path = None /\ rel_path = None
    /\ is_hot = FALSE /\ is_test = FALSE
    /\ lines = <<>> /\ stats = <<>>
    /\ in_log_enabled_block = FALSE /\ brace_depth = 0
    /\ log_enabled_level = None
    /\ i = 0 /\ level = None /\ full_statement = None
    /\ paren_depth = 0 /\ j = 0

\* LogOptimizationChecker.__init__
NewChecker ==
    /\ files = <<>>
    /\ total_logs = 0

\* a checker has been constructed on some root; nothing is scanned yet
Init ==
    /\ root_dir \in RootCatalogue
    /\ root_ok \in BOOLEAN
    /\ tree \in (IF root_ok THEN Trees ELSE {<<>>})
    /\ NewChecker
    /\ rust_files = {}
    /\ NoCall
    /\ result = None
    /\ pc = "idle"
    /\ caller = "scan"
    /\ scans = 0
    /\ reports = <<>>

\* check_file has just been called, by a client, on one file of at most
\* MaxLines lines
InitFile ==
    /\ root_dir = DotDir
    /\ root_ok = TRUE
    /\ \E p \in {PathMain} :
          /\ tree \in [{p} -> [lines : FilesUpTo(LineCatalogue, MaxLines),
                               readable : {TRUE}]
                              \cup {[lines |-> <<>>, readable |-> FALSE]}]
          /\ file_path = JoinPath(root_dir, p)
    /\ NewChecker
    /\ rust_files = {}
    /\ rel_path = None
    /\ is_hot = FALSE /\ is_test = FALSE
    /\ lines = <<>> /\ stats = <<>>
    /\ in_log_enabled_block = FALSE /\ brace_depth = 0
    /\ log_enabled_level = None
    /\ i = 0 /\ level = None /\ full_statement = None
    /\ paren_depth = 0 /\ j = 0
    /\ result = None
    /\ pc = "call"
    /\ caller = "direct"
    /\ scans = 0
    /\ reports = <<>>

\* check_file has just been called, by a client, on one file of at most
\* MaxNestedLines lines, long enough to hold a guard block inside another
InitNested ==
    /\ root_dir = DotDir
    /\ root_ok = TRUE
    /\ \E p \in {PathMain} :
          /\ tree \in [{p} -> [lines : FilesUpTo(NestedCatalogue, MaxNestedLines),
                               readable : {TRUE}]
                              \cup {[lines |-> <<>>, readable |-> FALSE]}]
          /\ file_path = JoinPath(root_dir, p)
    /\ NewChecker
    /\ rust_files = {}
    /\ rel_path = None
    /\ is_hot = FALSE /\ is_test = FALSE
    /\ lines = <<>> /\ stats = <<>>
    /\ in_log_enabled_block = FALSE /\ brace_depth = 0
    /\ log_enabled_level = None
    /\ i = 0 /\ level = None /\ full_statement = None
    /\ paren_depth = 0 /\ j = 0
    /\ result = None
    /\ pc = "call"
    /\ caller = "direct"
    /\ scans = 0
    /\ reports = <<>>

\* check_file has just been called, by a client, on one file holding a log
\* call over a text of braces
\* before one direct call of check_file on a file made of LiveCatalogue lines
InitLive ==
    /\ root_dir = DotDir
    /\ root_ok = TRUE
    /\ \E p \in {PathMain} :
          /\ tree \in [{p} -> [lines : FilesUpTo(LiveCatalogue, MaxLines),
                               readable : {TRUE}]
                              \cup {[lines |-> <<>>, readable |-> FALSE]}]
          /\ file_path = JoinPath(root_dir, p)
    /\ NewChecker
    /\ rust_files = {}
    /\ rel_path = None
    /\ is_hot = FALSE /\ is_test = FALSE
    /\ lines = <<>> /\ stats = <<>>
    /\ in_log_enabled_block = FALSE /\ brace_depth = 0
    /\ log_enabled_level = None
    /\ i = 0 /\ level = None /\ full_statement = None
    /\ paren_depth = 0 /\ j = 0
    /\ result = None
    /\ pc = "call"
    /\ caller = "direct"
    /\ scans = 0
    /\ reports = <<>>

InitText ==
    /\ root_dir = DotDir
    /\ root_ok = TRUE
    /\ \E p \in {PathMain} :
          /\ tree \in [{p} -> [lines : TextFiles, readable : {TRUE}]
                              \cup {[lines |-> <<>>, readable |-> FALSE]}]
          /\ file_path = JoinPath(root_dir, p)
    /\ NewChecker
    /\ rust_files = {}
    /\ rel_path = None
    /\ is_hot = FALSE /\ is_test = FALSE
    /\ lines = <<>> /\ stats = <<>>
    /\ in_log_enabled_block = FALSE /\ brace_depth = 0
    /\ log_enabled_level = None
    /\ i = 0 /\ level = None /\ full_statement = None
    /\ paren_depth = 0 /\ j = 0
    /\ result = None
    /\ pc = "call"
    /\ caller = "direct"
    /\ scans = 0
    /\ reports = <<>>

(***************************************************************************)
(* check_file.                                                             *)
(***************************************************************************)
\* the locals of check_file go away when it returns
DropLocals ==
    /\ file_path' = None /\ rel_path' = None
    /\ is_hot' = FALSE /\ is_test' = FALSE
    /\ lines' = <<>> /\ stats' = <<>>
    /\ in_log_enabled_block' = FALSE /\ brace_depth' = 0
    /\ log_enabled_level' = None
    /\ i' = 0 /\ level' = None /\ full_statement' = None
    /\ paren_depth' = 0 /\ j' = 0

\* lines[i] of the code (0-based)
LineAt(k) == lines[k + 1]

\* line.count('{') - line.count('}')
BraceDelta(line) == count(line, "{") - count(line, "}")

\* line.count('(') - line.count(')')
ParenDelta(line) == count(line, "(") - count(line, ")")

\* entry of check_file: the relative path and its classification
CheckFileEnter ==
    /\ pc = "call"
    /\ rel_path' = RelativeTo(file_path, root_dir)
    /\ is_hot' = is_hot_path(rel_path')
    /\ is_test' = is_test_file(rel_path')
    /\ pc' = "open"
    /\ UNCHANGED <<fsVars, checkerVars, rust_files, file_path, lines, stats,
                   trackerVars, i, joinerVars, result, caller, clientVars>>

\* a faulty variant: the read failure ends the directory scan, the files not
\* yet iterated over are dropped
OpenFailsAbortsScan ==
    /\ pc = "open"
    /\ ~tree[rel_path].readable
    /\ result' = None
    /\ DropLocals
    /\ rust_files' = {}
    /\ pc' = "returned"
    /\ UNCHANGED <<fsVars, checkerVars, caller, clientVars>>

\* open()/readlines() raises: a warning is printed and None is returned
OpenFails ==
    /\ pc = "open"
    /\ ~tree[rel_path].readable
    /\ result' = None
    /\ DropLocals
    /\ pc' = "returned"
    /\ UNCHANGED <<fsVars, checkerVars, rust_files, caller, clientVars>>

\* the lines are read; stats, the tracker and the line index are set up
OpenReads ==
    /\ pc = "open"
    /\ tree[rel_path].readable
    /\ lines' = tree[rel_path].lines
    /\ stats' = [path |-> rel_path, logs |-> <<>>]
    /\ in_log_enabled_block' = FALSE
    /\ brace_depth' = 0
    /\ log_enabled_level' = None
    /\ i' = 0
    /\ pc' = "main"
    /\ UNCHANGED <<fsVars, checkerVars, rust_files, file_path, rel_path,
                   is_hot, is_test, joinerVars, result, caller, clientVars>>

\* a faulty variant: the opener counts the braces it opens and forgets the
\* ones it closes
GuardOpenerLineCountsOpensOnly ==
    /\ pc = "main"
    /\ i < Len(lines)
    /\ \E enabled_match \in {log_enabled_pattern_search(LineAt(i))} :
           /\ enabled_match # None
           /\ in_log_enabled_block' = TRUE
           /\ log_enabled_level' = lower(enabled_match)
           /\ brace_depth' = count(LineAt(i), "{")
    /\ i' = i + 1
    /\ UNCHANGED <<fsVars, checkerVars, rust_files, callVars, stats,
                   joinerVars, result, pc, caller, clientVars>>

\* a line on which log_enabled_pattern is found: the guard is (re)opened and
\* the rest of the loop body is skipped
GuardOpenerLine ==
    /\ pc = "main"
    /\ i < Len(lines)
    /\ \E enabled_match \in {log_enabled_pattern_search(LineAt(i))} :
           /\ enabled_match # None
           /\ in_log_enabled_block' = TRUE
           /\ log_enabled_level' = lower(enabled_match)
           /\ brace_depth' = BraceDelta(LineAt(i))
    /\ i' = i + 1
    /\ UNCHANGED <<fsVars, checkerVars, rust_files, callVars, stats,
                   joinerVars, result, pc, caller, clientVars>>

\* a faulty variant: closing the guard leaves its level recorded
TrackBracesKeepsLevel(line) ==
    IF in_log_enabled_block
    THEN LET depth == brace_depth + BraceDelta(line)
         IN  /\ brace_depth' = depth
             /\ in_log_enabled_block' = (depth > 0)
             /\ log_enabled_level' = log_enabled_level
    ELSE UNCHANGED trackerVars

\* a faulty variant: the guard is closed only when the depth falls below 0
TrackBracesClosesBelowZero(line) ==
    IF in_log_enabled_block
    THEN LET depth == brace_depth + BraceDelta(line)
         IN  /\ brace_depth' = depth
             /\ in_log_enabled_block' = (depth >= 0)
             /\ log_enabled_level' = IF depth < 0 THEN None ELSE log_enabled_level
    ELSE UNCHANGED trackerVars

\* "Track brace depth if in log_enabled block", for a line that is no opener
TrackBraces(line) ==
    IF in_log_enabled_block
    THEN LET depth == brace_depth + BraceDelta(line)
         IN  /\ brace_depth' = depth
             /\ in_log_enabled_block' = (depth > 0)
             /\ log_enabled_level' = IF depth <= 0 THEN None ELSE log_enabled_level
    ELSE UNCHANGED trackerVars

\* a faulty variant: the main loop does not move past such a line
PlainLineStalls ==
    /\ pc = "main"
    /\ i < Len(lines)
    /\ log_enabled_pattern_search(LineAt(i)) = None
    /\ log_pattern_match(LineAt(i)) = None
    /\ UNCHANGED vars

\* a line that neither opens a guard nor starts a log call
PlainLine ==
    /\ pc = "main"
    /\ i < Len(lines)
    /\ log_enabled_pattern_search(LineAt(i)) = None
    /\ log_pattern_match(LineAt(i)) = None
    /\ TrackBraces(LineAt(i))
    /\ i' = i + 1
    /\ UNCHANGED <<fsVars, checkerVars, rust_files, callVars, stats,
                   joinerVars, result, pc, caller, clientVars>>

\* a faulty variant: the braces of a line that starts a log call are not
\* fed to the tracker
LogOpenerLineSkipsTracking ==
    /\ pc = "main"
    /\ i < Len(lines)
    /\ log_enabled_pattern_search(LineAt(i)) = None
    /\ log_pattern_match(LineAt(i)) # None
    /\ level' = log_pattern_match(LineAt(i))
    /\ full_statement' = LineAt(i)
    /\ paren_depth' = ParenDelta(LineAt(i))
    /\ j' = i + 1
    /\ pc' = "join"
    /\ UNCHANGED <<fsVars, checkerVars, rust_files, callVars, stats, i,
                   trackerVars, result, caller, clientVars>>

\* a line on which log_pattern matches: the statement starts with this line
LogOpenerLine ==
    /\ pc = "main"
    /\ i < Len(lines)
    /\ log_enabled_pattern_search(LineAt(i)) = None
    /\ log_pattern_match(LineAt(i)) # None
    /\ TrackBraces(LineAt(i))
    /\ level' = log_pattern_match(LineAt(i))
    /\ full_statement' = LineAt(i)
    /\ paren_depth' = ParenDelta(LineAt(i))
    /\ j' = i + 1
    /\ pc' = "join"
    /\ UNCHANGED <<fsVars, checkerVars, rust_files, callVars, stats, i,
                   result, caller, clientVars>>

\* a faulty variant: the inner loop balances the parentheses but does not
\* append the continuation line
JoinLineDropsText ==
    /\ pc = "join"
    /\ paren_depth > 0 /\ j < Len(lines)
    /\ paren_depth' = paren_depth + ParenDelta(LineAt(j))
    /\ j' = j + 1
    /\ UNCHANGED <<fsVars, checkerVars, rust_files, callVars, stats,
                   trackerVars, i, level, full_statement, result, pc, caller,
                   clientVars>>

\* a faulty variant: the inner loop adds the opening parentheses of the
\* continuation line to the balance and forgets the closing ones
JoinLineCountsOpensOnly ==
    /\ pc = "join"
    /\ paren_depth > 0 /\ j < Len(lines)
    /\ full_statement' = full_statement \o LineAt(j)
    /\ paren_depth' = paren_depth + count(LineAt(j), "(")
    /\ j' = j + 1
    /\ UNCHANGED <<fsVars, checkerVars, rust_files, callVars, stats,
                   trackerVars, i, level, result, pc, caller, clientVars>>

\* a faulty variant: the inner loop also feeds the braces of the
\* continuation line to the tracker
JoinLineTracksBraces ==
    /\ pc = "join"
    /\ paren_depth > 0 /\ j < Len(lines)
    /\ full_statement' = full_statement \o LineAt(j)
    /\ paren_depth' = paren_depth + ParenDelta(LineAt(j))
    /\ j' = j + 1
    /\ TrackBraces(LineAt(j))
    /\ UNCHANGED <<fsVars, checkerVars, rust_files, callVars, stats,
                   i, level, result, pc, caller, clientVars>>

\* the inner loop: one more line is appended to the statement
JoinLine ==
    /\ pc = "join"
    /\ paren_depth > 0 /\ j < Len(lines)
    /\ full_statement' = full_statement \o LineAt(j)
    /\ paren_depth' = paren_depth + ParenDelta(LineAt(j))
    /\ j' = j + 1
    /\ UNCHANGED <<fsVars, checkerVars, rust_files, callVars, stats,
                   trackerVars, i, level, result, pc, caller, clientVars>>

\* the longest content a finding keeps
ContentLimit == 200

\* "Check if it's already wrapped"
is_wrapped ==
    /\ in_log_enabled_block
    /\ log_enabled_level # None
    /\ log_enabled_level = level

\* a faulty variant: the finding carries the number of the last line joined
log_entry_at_last_line ==
    [file_path |-> rel_path,
     line_number |-> j,
     log_level |-> level,
     content |-> Prefix(full_statement, ContentLimit),
     is_hot_path |-> is_hot,
     is_test |-> is_test]

\* a faulty variant: the finding carries the 0-based index of the line
log_entry_zero_based ==
    [file_path |-> rel_path,
     line_number |-> i,
     log_level |-> level,
     content |-> Prefix(full_statement, ContentLimit),
     is_hot_path |-> is_hot,
     is_test |-> is_test]

\* a faulty variant: the finding keeps the whole statement as its content
log_entry_untruncated ==
    [file_path |-> rel_path,
     line_number |-> i + 1,
     log_level |-> level,
     content |-> full_statement,
     is_hot_path |-> is_hot,
     is_test |-> is_test]

\* the UnoptimizedLog built for the statement just joined
log_entry ==
    [file_path |-> rel_path,
     line_number |-> i + 1,
     log_level |-> level,
     content |-> Prefix(full_statement, ContentLimit),
     is_hot_path |-> is_hot,
     is_test |-> is_test]

\* a faulty variant: check_file itself counts the finding in the total of
\* the checker
StatementDoneCountsTotal ==
    /\ pc = "join"
    /\ ~(paren_depth > 0 /\ j < Len(lines))
    /\ IF format_arg_pattern_search(full_statement) /\ ~is_wrapped
       THEN /\ stats' = [stats EXCEPT !.logs = Append(@, log_entry)]
            /\ total_logs' = total_logs + 1
       ELSE UNCHANGED <<stats, total_logs>>
    /\ i' = i + 1
    /\ level' = None /\ full_statement' = None /\ paren_depth' = 0 /\ j' = 0
    /\ pc' = "main"
    /\ UNCHANGED <<fsVars, files, rust_files, callVars, trackerVars,
                   result, caller, clientVars>>

\* a faulty variant: the main loop resumes after the last line joined
StatementDoneSkipsJoinedLines ==
    /\ pc = "join"
    /\ ~(paren_depth > 0 /\ j < Len(lines))
    /\ stats' = IF format_arg_pattern_search(full_statement) /\ ~is_wrapped
                THEN [stats EXCEPT !.logs = Append(@, log_entry)]
                ELSE stats
    /\ i' = j
    /\ level' = None /\ full_statement' = None /\ paren_depth' = 0 /\ j' = 0
    /\ pc' = "main"
    /\ UNCHANGED <<fsVars, checkerVars, rust_files, callVars, trackerVars,
                   result, caller, clientVars>>

\* the statement is complete: it is reported if it has a format argument
\* and is not wrapped; the main loop moves to the next line
StatementDone ==
    /\ pc = "join"
    /\ ~(paren_depth > 0 /\ j < Len(lines))
    /\ stats' = IF format_arg_pattern_search(full_statement) /\ ~is_wrapped
                THEN [stats EXCEPT !.logs = Append(@, log_entry)]
                ELSE stats
    /\ i' = i + 1
    /\ level' = None /\ full_statement' = None /\ paren_depth' = 0 /\ j' = 0
    /\ pc' = "main"
    /\ UNCHANGED <<fsVars, checkerVars, rust_files, callVars, trackerVars,
                   result, caller, clientVars>>

\* a faulty variant: stats is returned even when it holds no log
CheckFileReturnsEmptyStats ==
    /\ pc = "main"
    /\ i >= Len(lines)
    /\ result' = stats
    /\ DropLocals
    /\ pc' = "returned"
    /\ UNCHANGED <<fsVars, checkerVars, rust_files, caller, clientVars>>

\* end of the main loop: stats if it has logs, else None
CheckFileReturn ==
    /\ pc = "main"
    /\ i >= Len(lines)
    /\ result' = IF stats.logs # <<>> THEN stats ELSE None
    /\ DropLocals
    /\ pc' = "returned"
    /\ UNCHANGED <<fsVars, checkerVars, rust_files, caller, clientVars>>

(***************************************************************************)
(* get_summary.                                                            *)
(***************************************************************************)
\* every log held by a files map, as (path, index) pairs
LogRefs(fs) == UNION {{<<p, k>> : k \in 1..Len(fs[p].logs)} : p \in DOMAIN fs}

LogAt(fs, r) == fs[r[1]].logs[r[2]]

\* by_level: a defaultdict(int) incremented once per log under its level
CountByLevel(fs) ==
    LET keys == {LogAt(fs, r).log_level : r \in LogRefs(fs)}
    IN  [x \in keys |->
            Cardinality({r \in LogRefs(fs) : LogAt(fs, r).log_level = x})]

\* by_module: a defaultdict(int) incremented once per log under its module
CountByModule(fs) ==
    LET keys == {ModuleOf(LogAt(fs, r).file_path) : r \in LogRefs(fs)}
    IN  [x \in keys |->
            Cardinality({r \in LogRefs(fs) : ModuleOf(LogAt(fs, r).file_path) = x})]

SummaryOf(fs, total) ==
    LET test_count == Cardinality({r \in LogRefs(fs) : LogAt(fs, r).is_test})
    IN  [total |-> total,
         files |-> Cardinality(DOMAIN fs),
         by_level |-> CountByLevel(fs),
         by_module |-> CountByModule(fs),
         hot_path |-> Cardinality({r \in LogRefs(fs) : LogAt(fs, r).is_hot_path}),
         test |-> test_count,
         production |-> total - test_count]

get_summary == SummaryOf(files, total_logs)

(***************************************************************************)
(* scan_directory, and the clients of the checker.                         *)
(***************************************************************************)
\* list(self.root_dir.rglob('*.rs')): nothing when the root is no directory
RGlob ==
    IF root_ok
    THEN {JoinPath(root_dir, p) : p \in {q \in DOMAIN tree : IsRustFile(q)}}
    ELSE {}

\* scan_directory is called
ScanDirectory ==
    /\ pc = "idle"
    /\ scans < MaxScans
    /\ rust_files' = RGlob
    /\ caller' = "scan"
    /\ pc' = "scan"
    /\ UNCHANGED <<fsVars, checkerVars, callVars, stats, trackerVars, i,
                   joinerVars, result, clientVars>>

\* the loop takes a file whose path contains '/target/': it is skipped
ScanSkipTarget ==
    /\ pc = "scan"
    /\ \E f \in rust_files :
          /\ Contains(f, TargetFragment)
          /\ rust_files' = rust_files \ {f}
    /\ UNCHANGED <<fsVars, checkerVars, callVars, stats, trackerVars, i,
                   joinerVars, result, pc, caller, clientVars>>

\* the loop takes any other file and calls check_file on it
ScanCallCheckFile ==
    /\ pc = "scan"
    /\ \E f \in rust_files :
          /\ ~Contains(f, TargetFragment)
          /\ rust_files' = rust_files \ {f}
          /\ file_path' = f
    /\ pc' = "call"
    /\ UNCHANGED <<fsVars, checkerVars, rel_path, is_hot, is_test, lines,
                   stats, trackerVars, i, joinerVars, result, caller,
                   clientVars>>

\* self.files[stats.path] = stats
PutStats(fs, st) ==
    [p \in DOMAIN fs \cup {st.path} |-> IF p = st.path THEN st ELSE fs[p]]

\* a faulty variant: the counter is assigned instead of incremented
AddCountOverwrites(total, st) == Len(st.logs)

\* self.total_logs += stats.count
AddCount(total, st) == total + Len(st.logs)

\* check_file has returned to scan_directory: "if stats:" merges the result
MergeStats ==
    /\ pc = "returned"
    /\ caller = "scan"
    /\ IF result # None
       THEN /\ files' = PutStats(files, result)
            /\ total_logs' = AddCount(total_logs, result)
       ELSE UNCHANGED checkerVars
    /\ result' = None
    /\ pc' = "scan"
    /\ UNCHANGED <<fsVars, rust_files, callVars, stats, trackerVars, i,
                   joinerVars, caller, clientVars>>

\* the loop of scan_directory is over
ScanDone ==
    /\ pc = "scan"
    /\ rust_files = {}
    /\ scans' = scans + 1
    /\ pc' = "idle"
    /\ UNCHANGED <<fsVars, checkerVars, rust_files, callVars, stats,
                   trackerVars, i, joinerVars, result, caller, reports>>

\* a report is generated (generate_*_report calls get_summary): main does so
\* once after scan_directory, whatever the scan found
GenerateReport ==
    /\ pc = "idle"
    /\ \A k \in DOMAIN reports : reports[k].scan # scans
    /\ reports' = Append(reports, [scan |-> scans, summary |-> get_summary])
    /\ UNCHANGED <<fsVars, checkerVars, rust_files, callVars, stats,
                   trackerVars, i, joinerVars, result, pc, caller, scans>>

\* a new LogOptimizationChecker is constructed on the same root (__init__)
Construct ==
    /\ pc = "idle"
    /\ scans > 0
    /\ files' = <<>>
    /\ total_logs' = 0
    /\ scans' = 0
    /\ reports' = <<>>
    /\ UNCHANGED <<fsVars, rust_files, callVars, stats, trackerVars, i,
                   joinerVars, result, pc, caller>>

CheckFileStep ==
    \/ CheckFileEnter
    \/ OpenFails
    \/ OpenReads
    \/ GuardOpenerLine
    \/ PlainLine
    \/ LogOpenerLine
    \/ JoinLine
    \/ StatementDone
    \/ CheckFileReturn

Next ==
    \/ ScanDirectory
    \/ ScanSkipTarget
    \/ ScanCallCheckFile
    \/ CheckFileEnter
    \/ OpenFails
    \/ OpenReads
    \/ GuardOpenerLine
    \/ PlainLine
    \/ LogOpenerLine
    \/ JoinLine
    \/ StatementDone
    \/ CheckFileReturn
    \/ MergeStats
    \/ ScanDone
    \/ GenerateReport
    \/ Construct

\* a checker scanning a tree, any number of times
Spec == Init /\ [][Next]_vars

\* one direct call of check_file
SpecFile == InitFile /\ [][CheckFileStep]_vars

\* one direct call of check_file, which runs as long as it has a step to
\* take: nothing suspends the interpreter inside the call
SpecFileLive == InitLive /\ [][CheckFileStep]_vars /\ WF_vars(CheckFileStep)

\* one direct call of check_file on a file that may nest guard blocks
SpecNested == InitNested /\ [][CheckFileStep]_vars

\* one direct call of check_file on a file holding a log call over a text
\* of braces
SpecText == InitText /\ [][CheckFileStep]_vars

\* between two scans of one checker a file of the tree is rewritten: what
\* open()/readlines() gives on the next check_file call is the new content
EditFile ==
    /\ pc = "idle"
    /\ scans >= 1 /\ scans < MaxScans
    /\ \E p \in DOMAIN tree : \E e \in FileEntries :
          /\ e # tree[p]
          /\ tree' = [tree EXCEPT ![p] = e]
    /\ UNCHANGED <<root_dir, root_ok, checkerVars, rust_files, callVars,
                   stats, trackerVars, i, joinerVars, result, pc, caller,
                   clientVars>>

NextEdit ==
    \/ Next
    \/ EditFile

\* a checker scanning, any number of times, a tree that is edited between
\* the scans
SpecEdit == Init /\ [][NextEdit]_vars

(***************************************************************************)
(* The specification's reading of a file, against which the scanner is     *)
(* checked: the lexical block structure (which guards enclose a line), the *)
(* statement that starts on a line, and what a placeholder is.             *)
(***************************************************************************)
\* position p of the line is outside every string literal
OutsideString(line, p) ==
    line[p] # "\"" /\ Cardinality({q \in 1..(p - 1) : line[q] = "\""}) % 2 = 0

\* the block event at position p of a line: a guard condition (with its
\* level), "{", "}" or ";"
EventAt(line, p) ==
    IF log_enabled_pattern_at(line, p) # None
    THEN [kind |-> "guard", level |-> lower(log_enabled_pattern_at(line, p))]
    ELSE [kind |-> line[p], level |-> None]

\* the block events of a line, outside string literals, in text order
BlockEvents(line) ==
    LET at == {p \in DOMAIN line :
                  /\ OutsideString(line, p)
                  /\ \/ line[p] \in {"{", "}", ";"}
                     \/ log_enabled_pattern_at(line, p) # None}
        nth(k) == CHOOSE p \in at : Cardinality({q \in at : q < p}) = k - 1
    IN  [k \in 1..Cardinality(at) |-> EventAt(line, nth(k))]

LineEvents == [l \in LineCatalogue |-> BlockEvents(l)]

\* the open blocks (innermost last; a block is tagged with the level of the
\* guard it belongs to, or None) and the guard condition still waiting for
\* its "{"
NoBlocks == [stack |-> <<>>, pending |-> None]

ApplyEvent(st, e) ==
    IF e.kind = "guard" THEN [st EXCEPT !.pending = e.level]
    ELSE IF e.kind = "{" THEN [stack |-> Append(st.stack, st.pending), pending |-> None]
    ELSE IF e.kind = "}"
         THEN [stack |-> SubSeq(st.stack, 1, Len(st.stack) - 1), pending |-> None]
    ELSE [st EXCEPT !.pending = None]

RECURSIVE ApplyEvents(_, _, _)
ApplyEvents(st, es, k) ==
    IF k > Len(es) THEN st ELSE ApplyEvents(ApplyEvent(st, es[k]), es, k + 1)

\* the blocks open at the start of line n (1-based) of the file ls
RECURSIVE BlocksBefore(_, _)
BlocksBefore(ls, n) ==
    IF n <= 1 THEN NoBlocks
    ELSE ApplyEvents(BlocksBefore(ls, n - 1), LineEvents[ls[n - 1]], 1)

\* line n lies in a guard block of level lv whose braces have not closed
UnderGuard(ls, n, lv) ==
    \E k \in DOMAIN BlocksBefore(ls, n).stack : BlocksBefore(ls, n).stack[k] = lv

\* the level macro a line starts with (None if it starts no log call)
MacroOn(line) ==
    LET p == SkipClass(line, 1, WhiteSpace)
        named == {k \in DOMAIN LevelNames :
                     /\ HasAt(line, p, LevelNames[k] \o <<"!">>)
                     /\ HasAt(line, SkipClass(line, p + Len(LevelNames[k]) + 1, WhiteSpace), <<"(">>)}
    IN  IF named = {} THEN None ELSE LevelNames[CHOOSE k \in named : TRUE]

\* the last line of the statement starting on line n: the first line at
\* which the parenthesis balance since line n is <= 0, else the last line
RECURSIVE StatementEnd(_, _, _)
StatementEnd(ls, k, balance) ==
    IF balance <= 0 \/ k >= Len(ls) THEN k
    ELSE StatementEnd(ls, k + 1, balance + ParenDelta(ls[k + 1]))

LastLineOf(ls, n) == StatementEnd(ls, n, ParenDelta(ls[n]))

\* the lines a..b of ls, concatenated
RECURSIVE Concat(_, _, _)
Concat(ls, a, b) == IF a > b THEN <<>> ELSE ls[a] \o Concat(ls, a + 1, b)

JoinedText(ls, n) == Concat(ls, n, LastLineOf(ls, n))

\* a brace-delimited span with no brace inside
HasPlaceholder(s) ==
    \E a \in 1..Len(s) : \E b \in (a + 1)..Len(s) :
        /\ s[a] = "{" /\ s[b] = "}"
        /\ \A k \in (a + 1)..(b - 1) : s[k] \notin {"{", "}"}

\* the main loop of check_file has consumed every line
LoopExit == pc = "main" /\ i >= Len(lines)

\* the findings located at line n
FindingsAt(n) == {k \in DOMAIN stats.logs : stats.logs[k].line_number = n}

\* the lines (1-based) on which a log statement starts
StatementLines(ls) == {n \in DOMAIN ls : MacroOn(ls[n]) # None}

(***************************************************************************)
(* Claims about check_file, under SpecFile.                                *)
(***************************************************************************)
\* C1: a statement under a guard of its own level, whose braces have not yet
\* closed, yields no Finding, however the guard was opened.
C1_GuardedStatementNotReported ==
    LoopExit =>
        \A n \in StatementLines(lines) :
            UnderGuard(lines, n, MacroOn(lines[n])) => FindingsAt(n) = {}

\* C2: a statement with a placeholder in its joined text that is under no
\* guard of its own level yields exactly one Finding.
C2_UnguardedStatementReported ==
    LoopExit =>
        \A n \in StatementLines(lines) :
            (/\ HasPlaceholder(JoinedText(lines, n))
             /\ ~UnderGuard(lines, n, MacroOn(lines[n])))
                => Cardinality(FindingsAt(n)) = 1

\* C3: a statement whose joined text has no placeholder yields no Finding,
\* whatever the guard state is.
C3_NoPlaceholderNoFinding ==
    LoopExit =>
        \A n \in StatementLines(lines) :
            ~HasPlaceholder(JoinedText(lines, n)) => FindingsAt(n) = {}

\* C3 witness: the pass is over a file holding a statement without a
\* placeholder outside any guard, and one without a placeholder inside a
\* guard of its level; neither is reported.
C3_Witness ==
    /\ LoopExit
    /\ \E n, m \in StatementLines(lines) :
          /\ ~HasPlaceholder(JoinedText(lines, n))
          /\ ~HasPlaceholder(JoinedText(lines, m))
          /\ BlocksBefore(lines, n).stack = <<>>
          /\ UnderGuard(lines, m, MacroOn(lines[m]))
          /\ FindingsAt(n) = {} /\ FindingsAt(m) = {}

\* C9: every Finding's line_number is the 1-based index of the line its log
\* macro starts on, and its level is the level of the macro named there.
C9_FindingLineAndLevel ==
    stats # None =>
        \A k \in DOMAIN stats.logs :
            /\ stats.logs[k].line_number \in 1..Len(lines)
            /\ \E n \in DOMAIN LevelNames : stats.logs[k].log_level = LevelNames[n]
            /\ MacroOn(lines[stats.logs[k].line_number]) = stats.logs[k].log_level

\* C9 witness: the pass is over and has reported an info! call on line 1 and
\* a debug! call that starts on line 2 and ends on line 3.
C9_Witness ==
    /\ LoopExit
    /\ Len(stats.logs) = 2
    /\ stats.logs[1].line_number = 1 /\ stats.logs[1].log_level = LevelNames[3]
    /\ stats.logs[2].line_number = 2 /\ stats.logs[2].log_level = LevelNames[2]
    /\ LastLineOf(lines, 2) = 3

\* the last finding of the pass
LastLog(st) == st.logs[Len(st.logs)]

\* the step that completes the statement started on line i + 1, when that
\* statement spans several lines, has a placeholder on one of them and is
\* not treated as guarded by the tracker
CompletesUnguardedMultiLine ==
    /\ pc = "join" /\ pc' = "main"
    /\ LastLineOf(lines, i + 1) > i + 1
    /\ HasPlaceholder(JoinedText(lines, i + 1))
    /\ ~is_wrapped

\* that step appends exactly one Finding, located at the opening line, and
\* no earlier Finding is located there
AppendsOneFindingAtOpeningLine ==
    /\ Len(stats'.logs) = Len(stats.logs) + 1
    /\ SubSeq(stats'.logs, 1, Len(stats.logs)) = stats.logs
    /\ LastLog(stats').line_number = i + 1
    /\ LastLog(stats').log_level = MacroOn(lines[i + 1])
    /\ \A k \in DOMAIN stats.logs : stats.logs[k].line_number < i + 1

\* C10 (as stated): an unguarded multi-line log call with a placeholder on
\* any of its lines yields exactly one Finding at the opening line, whose
\* content holds the text of all the joined lines.
C10_ContentHoldsAllLines ==
    [][CompletesUnguardedMultiLine =>
          /\ AppendsOneFindingAtOpeningLine
          /\ LastLog(stats').content = JoinedText(lines, i + 1)]_vars

\* C10 (amended): such a call yields exactly one Finding at the opening
\* line, whose content is the first 200 characters of the joined lines: all
\* of them only when they total at most 200 characters.
C10_ContentIsPrefixOfJoinedLines ==
    [][CompletesUnguardedMultiLine =>
          /\ AppendsOneFindingAtOpeningLine
          /\ LastLog(stats').content = Prefix(JoinedText(lines, i + 1), ContentLimit)
          /\ (Len(JoinedText(lines, i + 1)) <= ContentLimit
                 => LastLog(stats').content = JoinedText(lines, i + 1))]_vars

\* C10 witness: a Finding was made for a call of three lines whose only
\* placeholder is on the last one and whose joined text is longer than the
\* content kept.
C10_Witness ==
    /\ LoopExit
    /\ Len(stats.logs) = 1
    /\ stats.logs[1].line_number = 1
    /\ LastLineOf(lines, 1) = 3
    /\ ~HasPlaceholder(Concat(lines, 1, 2))
    /\ HasPlaceholder(lines[3])
    /\ Len(JoinedText(lines, 1)) > ContentLimit
    /\ Len(stats.logs[1].content) = ContentLimit

\* C11: every Finding's content is the joined statement text cut to at most
\* 200 characters, and the cut does not decide whether there is a Finding:
\* a statement the tracker does not treat as guarded is reported exactly
\* when its whole joined text has a placeholder.
C11_ContentIsBoundedPrefix ==
    /\ [](stats # None =>
            \A k \in DOMAIN stats.logs :
                LET text == JoinedText(lines, stats.logs[k].line_number)
                IN  /\ Len(stats.logs[k].content) <= ContentLimit
                    /\ stats.logs[k].content = Prefix(text, ContentLimit)
                    /\ HasPlaceholder(text))
    /\ [][(pc = "join" /\ pc' = "main" /\ ~is_wrapped) =>
            (Len(stats'.logs) = Len(stats.logs) + 1
                <=> HasPlaceholder(JoinedText(lines, i + 1)))]_vars

\* C11 witness: a Finding exists whose joined text is longer than 200
\* characters and has its only placeholder after the 200th: the content
\* kept has 200 characters and no placeholder.
C11_Witness ==
    /\ LoopExit
    /\ \E k \in DOMAIN stats.logs :
          /\ Len(JoinedText(lines, stats.logs[k].line_number)) > ContentLimit
          /\ Len(stats.logs[k].content) = ContentLimit
          /\ ~HasPlaceholder(stats.logs[k].content)
          /\ HasPlaceholder(JoinedText(lines, stats.logs[k].line_number))

\* line n of ls lies in the block of a guard of level lv that is still open,
\* after a guard block that was opened and closed inside that block
AfterInnerGuardBlock(ls, n, lv) ==
    \E k \in DOMAIN BlocksBefore(ls, n).stack :
        /\ BlocksBefore(ls, n).stack[k] = lv
        /\ Len(BlocksBefore(ls, n).stack) = k
        /\ \E m \in 1..(n - 1) :
              /\ Len(BlocksBefore(ls, m).stack) > k
              /\ BlocksBefore(ls, m).stack[k + 1] # None
              /\ \A h \in m..n : Len(BlocksBefore(ls, h).stack) >= k

\* C18: when a guard of level Y is opened and closed inside a still-open
\* guard of level X, a level-X statement with a placeholder that follows the
\* inner block and precedes the closing brace of the outer one yields no
\* Finding.
C18_OuterGuardSurvivesInnerBlock ==
    LoopExit =>
        \A n \in StatementLines(lines) :
            (/\ HasPlaceholder(JoinedText(lines, n))
             /\ AfterInnerGuardBlock(lines, n, MacroOn(lines[n])))
                => FindingsAt(n) = {}

\* the main loop is at a line on which the guard-opener pattern is found
AtGuardOpener ==
    /\ pc = "main" /\ i < Len(lines)
    /\ log_enabled_pattern_search(LineAt(i)) # None

\* the tracker after the opener line: active, at the level the line names,
\* with the depth the braces of the line give
TrackerOpened ==
    /\ in_log_enabled_block'
    /\ log_enabled_level' = lower(log_enabled_pattern_search(LineAt(i)))
    /\ brace_depth' = count(LineAt(i), "{") - count(LineAt(i), "}")

\* a log call with a placeholder begins on the current line, and the
\* tracker, as it is before the line, holds no guard of the call's level
UnguardedCallBeginsHere ==
    /\ MacroOn(LineAt(i)) # None
    /\ HasPlaceholder(JoinedText(lines, i + 1))
    /\ ~(in_log_enabled_block /\ log_enabled_level = MacroOn(LineAt(i)))

\* C19: on a guard-opener line the tracker becomes active at the level of
\* the guard with depth = opens - closes of the line, and a log call that
\* begins on that line is judged by the tracker state before the line: with
\* a placeholder and no matching guard active before, it is a Finding.
C19_CallOnOpenerLineJudgedBeforeOpening ==
    [][AtGuardOpener =>
          /\ TrackerOpened
          /\ UnguardedCallBeginsHere =>
                \E k \in DOMAIN stats'.logs :
                    /\ stats'.logs[k].line_number = i + 1
                    /\ stats'.logs[k].log_level = MacroOn(LineAt(i))]_vars

\* the main loop is at a line on which the guard-opener pattern is not found
AtOtherLine ==
    /\ pc = "main" /\ i < Len(lines)
    /\ log_enabled_pattern_search(LineAt(i)) = None

\* the depth of the guard after the current line: opens - closes added
DepthAfterLine ==
    brace_depth + count(LineAt(i), "{") - count(LineAt(i), "}")

\* the statement just joined is added to the findings
FindingAppended ==
    /\ Len(stats'.logs) = Len(stats.logs) + 1
    /\ LastLog(stats').line_number = i + 1

\* C20: while a guard is active, a line that is no opener adds its
\* opens - closes to the depth before the log call of the line is examined;
\* when the depth becomes <= 0 the guard is closed on that line; a log call
\* that begins on the closing line or on a later line, until another
\* opener, is judged as not guarded: with a placeholder it is a Finding.
C20_GuardClosesOnClosingLine ==
    /\ [][(AtOtherLine /\ in_log_enabled_block) =>
            IF DepthAfterLine > 0
            THEN /\ in_log_enabled_block'
                 /\ brace_depth' = DepthAfterLine
                 /\ log_enabled_level' = log_enabled_level
            ELSE /\ ~in_log_enabled_block'
                 /\ log_enabled_level' = None]_vars
    /\ [][(AtOtherLine /\ ~in_log_enabled_block) => ~in_log_enabled_block']_vars
    /\ [][(pc = "join") =>
            /\ UNCHANGED trackerVars
            /\ pc' = "main" =>
                  (FindingAppended <=>
                      /\ HasPlaceholder(JoinedText(lines, i + 1))
                      /\ ~(/\ in_log_enabled_block
                           /\ log_enabled_level = MacroOn(lines[i + 1])))]_vars

\* C20 witness: after a Debug guard opener, a debug! call with a placeholder
\* begins on the line whose brace closes the guard and another on the line
\* after it: both are Findings.
C20_Witness ==
    /\ LoopExit
    /\ Len(lines) = 3
    /\ lines[1] = LnGuardDebug
    /\ MacroOn(lines[2]) = LevelNames[2]
    /\ count(lines[2], "{") - count(lines[2], "}") = -1
    /\ MacroOn(lines[3]) = LevelNames[2]
    /\ FindingsAt(2) # {} /\ FindingsAt(3) # {}
    /\ ~in_log_enabled_block

\* opens - closes of the parentheses of lines a..b of ls, taken together
ParenBalance(ls, a, b) ==
    count(Concat(ls, a, b), "(") - count(Concat(ls, a, b), ")")

\* the first line, from line n on, at which the balance summed from line n
\* is <= 0, or the last line of the file when there is none
ClosingLine(ls, n) ==
    LET ends == {k \in n..Len(ls) : ParenBalance(ls, n, k) <= 0}
    IN  IF ends = {} THEN Len(ls)
        ELSE CHOOSE k \in ends : \A h \in ends : k <= h

\* C21: for a log call opening on line i the joined statement is exactly
\* the concatenation of lines i..k, k being the first line at which the
\* parenthesis balance summed from line i is <= 0, or the last line of the
\* file if there is none; at the end of the file the pass goes on without
\* an error and the text is examined like that of any other statement.
C21_JoinedStatementIsLinesUpToBalance ==
    /\ [][(pc = "main" /\ pc' = "join") =>
            /\ full_statement' = lines[i + 1]
            /\ paren_depth' = ParenBalance(lines, i + 1, i + 1)]_vars
    /\ [][(pc = "join" /\ pc' = "join") =>
            /\ j < ClosingLine(lines, i + 1)
            /\ full_statement' = Concat(lines, i + 1, j + 1)
            /\ paren_depth' = ParenBalance(lines, i + 1, j + 1)]_vars
    /\ [][(pc = "join" /\ pc' # "join") =>
            /\ pc' = "main"
            /\ j = ClosingLine(lines, i + 1)
            /\ full_statement = Concat(lines, i + 1, ClosingLine(lines, i + 1))
            /\ FindingAppended <=>
                  (HasPlaceholder(full_statement) /\ ~is_wrapped)]_vars

\* C21 witness: the pass is over a file in which one reported call closes
\* its parentheses on a later line than it opens and another reported call
\* never closes them: its statement runs to the last line of the file.
C21_Witness ==
    /\ LoopExit
    /\ \E a, b \in DOMAIN stats.logs :
          LET n == stats.logs[a].line_number
              m == stats.logs[b].line_number
          IN  /\ ClosingLine(lines, n) > n
              /\ ParenBalance(lines, n, ClosingLine(lines, n)) <= 0
              /\ m < Len(lines)
              /\ \A k \in m..Len(lines) : ParenBalance(lines, m, k) > 0

\* the pattern matches s from an opening brace after which another opening
\* brace comes before the closing one
MatchSpansNestedOpen(s) ==
    \E a \in 1..Len(s) : \E b \in (a + 2)..Len(s) :
        /\ s[a] = "{" /\ s[b] = "}"
        /\ \A k \in (a + 1)..(b - 1) : s[k] # "}"
        /\ \E k \in (a + 1)..(b - 1) : s[k] = "{"

\* C22: the placeholder pattern of the code (an opening brace, any run of
\* characters other than "}", a closing brace) is found in a joined
\* statement exactly when the statement holds a brace-delimited span with
\* no brace between its "{" and its "}", and the statement is reported
\* accordingly.
C22_PatternIsBraceSpanWithoutBrace ==
    /\ []((pc = "join") =>
            (format_arg_pattern_search(full_statement)
                <=> HasPlaceholder(full_statement)))
    /\ [][(pc = "join" /\ pc' = "main") =>
            (FindingAppended <=> HasPlaceholder(full_statement))]_vars

\* C22 witness: a call was reported in whose text the pattern can only match
\* from an opening brace that is followed by another opening brace before
\* the closing one (as in "{{}"): there is no closing brace after any later
\* occurrence of the pattern's own start.
C22_Witness ==
    /\ LoopExit
    /\ Len(stats.logs) = 1
    /\ MatchSpansNestedOpen(stats.logs[1].content)
    /\ count(stats.logs[1].content, "}") = 1
    /\ count(stats.logs[1].content, "{") >= 2

\* line n of ls is one on which the main loop starts to join a statement
StartsStatement(ls, n) ==
    /\ log_enabled_pattern_search(ls[n]) = None
    /\ log_pattern_match(ls[n]) # None

\* line m of ls was appended, as a continuation line, to a statement that
\* starts on an earlier line
JoinedAsContinuation(ls, m) ==
    \E n \in 1..(m - 1) : StartsStatement(ls, n) /\ ClosingLine(ls, n) >= m

\* C23 (as stated): once a line has been consumed, by the main loop or as a
\* continuation line appended to a statement, it is never examined again:
\* the main loop never stands at a line that was joined to a statement.
C23_JoinedLineNeverExaminedAgain ==
    (pc = "main" /\ i < Len(lines)) => ~JoinedAsContinuation(lines, i + 1)

\* C23 (amended): the main loop goes forward one line at a time and never
\* back, so it examines every line exactly once; the joiner only reads
\* ahead of it: after a statement joined from several lines the main loop
\* resumes at the line after the opening one, and examines the lines that
\* were joined as well.
C23_MainLoopAdvancesByOneLine ==
    /\ [][(pc \in {"main", "join"} /\ pc' \in {"main", "join"}) =>
            /\ i' = i \/ i' = i + 1
            /\ (pc = "main") => (i' = i + 1 <=> pc' = "main")
            /\ (pc = "join" /\ pc' = "main") => i' = i + 1
            /\ (pc = "join" /\ pc' = "join") => (j' = j + 1 /\ j > i)]_vars
    /\ []((pc = "main" /\ stats # None) =>
            \A k \in DOMAIN stats.logs : stats.logs[k].line_number <= i)
    /\ [](LoopExit => i = Len(lines))

\* C23 witness: the pass is over a file in which a line that was joined to
\* a reported statement was examined again by the main loop, and reported
\* as a statement of its own.
C23_Witness ==
    /\ LoopExit
    /\ \E a, b \in DOMAIN stats.logs :
          /\ stats.logs[a].line_number < stats.logs[b].line_number
          /\ stats.logs[b].line_number
                <= ClosingLine(lines, stats.logs[a].line_number)

\* C24: for every list of lines, malformed ones included, check_file
\* terminates and returns a result: every iteration of the main loop moves
\* its index one line forward, every iteration of the inner loop moves its
\* own index one line forward, neither index passes the end of the file, and
\* the call comes to its return.
C24_CheckFileTerminates ==
    /\ <>(pc = "returned")
    /\ [](i <= Len(lines) /\ j <= Len(lines))
    /\ [][(pc = "main" /\ pc' = "main") => i' = i + 1]_vars
    /\ [][(pc = "join" /\ pc' = "join") => j' = j + 1]_vars
    /\ [][(pc = "join" /\ pc' = "main") => i' = i + 1]_vars
    /\ [][(pc' = "returned") =>
            (result' = None \/ (result' = stats /\ stats.logs # <<>>))]_vars

\* C24 witness: check_file has returned a result for a file that opens a
\* guard it never closes and then a log call whose parentheses never close.
C24_Witness ==
    /\ pc = "returned"
    /\ result # None
    /\ LET ls == tree[PathMain].lines
       IN  /\ Len(ls) >= 2
           /\ log_enabled_pattern_search(ls[1]) # None
           /\ count(Concat(ls, 1, Len(ls)), "{") > count(Concat(ls, 1, Len(ls)), "}")
           /\ StartsStatement(ls, 2)
           /\ \A k \in 2..Len(ls) : ParenBalance(ls, 2, k) > 0

\* the tracker as the code holds it
Tracker ==
    [active |-> in_log_enabled_block,
     depth |-> brace_depth,
     level |-> log_enabled_level]

\* the tracker after the main loop has taken the first n lines of ls, each
\* as a line of its own: an opener sets it, any other line adds its braces
\* to the depth of an active guard and closes the guard at depth <= 0
RECURSIVE TrackerAt(_, _)
TrackerAt(ls, n) ==
    IF n = 0
    THEN [active |-> FALSE, depth |-> 0, level |-> None]
    ELSE LET before == TrackerAt(ls, n - 1)
             opened == log_enabled_pattern_search(ls[n])
             depth == before.depth + BraceDelta(ls[n])
         IN  IF opened # None
             THEN [active |-> TRUE, depth |-> BraceDelta(ls[n]),
                   level |-> lower(opened)]
             ELSE IF before.active
             THEN [active |-> depth > 0, depth |-> depth,
                   level |-> IF depth > 0 THEN before.level ELSE None]
             ELSE before

\* C26: whether a multi-line statement is guarded is decided by the tracker
\* as it stands once the opening line of the statement has been taken: the
\* inner loop leaves the tracker alone, so the lines it joins have no part
\* in the decision; the main loop feeds every line to the tracker when it
\* reaches it, the joined lines included.
C26_GuardDecidedAtOpeningLine ==
    /\ [](pc = "main" => Tracker = TrackerAt(lines, i))
    /\ [](pc = "join" => Tracker = TrackerAt(lines, i + 1))
    /\ [][(pc = "join" /\ pc' = "main") =>
            (FindingAppended <=>
                /\ HasPlaceholder(full_statement)
                /\ ~(/\ TrackerAt(lines, i + 1).active
                     /\ TrackerAt(lines, i + 1).level = level))]_vars

\* C26 witness: the pass is over a file in which a statement of several
\* lines with a placeholder opened under a guard of its level and was not
\* reported, although one of the lines joined to it holds the brace that
\* closed the guard when the main loop reached that line.
C26_Witness ==
    /\ LoopExit
    /\ \E n \in DOMAIN lines :
          /\ StartsStatement(lines, n)
          /\ ClosingLine(lines, n) > n
          /\ HasPlaceholder(Concat(lines, n, ClosingLine(lines, n)))
          /\ TrackerAt(lines, n).active
          /\ TrackerAt(lines, n).level = log_pattern_match(lines[n])
          /\ FindingsAt(n) = {}
          /\ \E k \in (n + 1)..ClosingLine(lines, n) :
                /\ BraceDelta(lines[k]) < 0
                /\ ~TrackerAt(lines, k).active

\* the line before the current one is a guard opener whose braces leave the
\* depth at 0 or below, and the current line, no opener itself, does not
\* raise the depth above 0
AfterFlatOpener ==
    /\ i >= 1 /\ i < Len(lines)
    /\ log_enabled_pattern_search(lines[i]) # None
    /\ BraceDelta(lines[i]) <= 0
    /\ log_enabled_pattern_search(lines[i + 1]) = None
    /\ BraceDelta(lines[i]) + BraceDelta(lines[i + 1]) <= 0

\* C27: when a guard-opener line leaves the depth at 0 or below and the
\* line after it does not raise the depth above 0, the guard is closed on
\* that line: the guard protects no statement, and a log call with a
\* placeholder that begins on that line is reported, whatever its level.
C27_FlatOpenerGuardsNothing ==
    /\ [](pc = "main" /\ AfterFlatOpener =>
            /\ in_log_enabled_block
            /\ brace_depth = BraceDelta(lines[i]))
    /\ [][(pc = "main" /\ AfterFlatOpener) =>
            /\ ~in_log_enabled_block'
            /\ log_enabled_level' = None]_vars
    /\ [][(pc = "join" /\ pc' = "main" /\ AfterFlatOpener) =>
            (HasPlaceholder(Concat(lines, i + 1, ClosingLine(lines, i + 1)))
                => FindingAppended)]_vars

\* C27 witness: the pass is over a file whose first line is a guard opener
\* with as many closing as opening braces and whose second line is a log
\* call of the level of the guard, with a placeholder: it was reported.
C27_Witness ==
    /\ LoopExit
    /\ Len(lines) >= 2
    /\ log_enabled_pattern_search(lines[1]) # None
    /\ BraceDelta(lines[1]) = 0
    /\ count(lines[1], "{") >= 1
    /\ log_pattern_match(lines[2]) = lower(log_enabled_pattern_search(lines[1]))
    /\ log_enabled_pattern_search(lines[2]) = None
    /\ FindingsAt(2) # {}
    /\ ~in_log_enabled_block

\* the Findings of one file are in file order: line numbers strictly
\* increasing and within the n lines of the file, one Finding at most per
\* line, each Finding naming the path of the file
InFileOrder(st, n) ==
    /\ \A a, b \in DOMAIN st.logs :
          a < b => st.logs[a].line_number < st.logs[b].line_number
    /\ \A k \in DOMAIN st.logs : st.logs[k].line_number \in 1..n
    /\ \A m \in 1..n :
          Cardinality({k \in DOMAIN st.logs : st.logs[k].line_number = m}) <= 1
    /\ \A k \in DOMAIN st.logs : st.logs[k].file_path = st.path

\* C28: within one FileResult the Findings are in file order, while
\* check_file builds it and when check_file returns it.
C28_FindingsInFileOrder ==
    /\ pc \in {"main", "join"} => InFileOrder(stats, Len(lines))
    /\ (pc = "returned" /\ result # None) =>
          InFileOrder(result, Len(tree[result.path].lines))

\* C28 witness: check_file has returned a FileResult with a Finding for
\* each of the three lines of the file.
C28_Witness ==
    /\ pc = "returned" /\ result # None
    /\ Len(tree[result.path].lines) = 3
    /\ Len(result.logs) = 3
    /\ result.logs[1].line_number = 1
    /\ result.logs[3].line_number = 3

\* C29: between two lines of the pass, and while a statement is joined, the
\* tracker is inactive exactly when no level is recorded; a statement is
\* treated as guarded only while a level is recorded.
C29_InactiveIffLevelUnset ==
    pc \in {"main", "join"} =>
        /\ (~in_log_enabled_block) <=> (log_enabled_level = None)
        /\ (pc = "join" /\ is_wrapped) => log_enabled_level \in Range(LevelNames)

\* C29 witness: between two lines of the pass the tracker is inactive with
\* no level, after a guard that the first line opened with a level was
\* closed by the second.
C29_Witness ==
    /\ pc = "main" /\ i = 2
    /\ log_enabled_pattern_search(lines[1]) # None
    /\ BraceDelta(lines[1]) > 0
    /\ log_enabled_pattern_search(lines[2]) = None
    /\ BraceDelta(lines[2]) < 0
    /\ ~in_log_enabled_block
    /\ log_enabled_level = None

\* C30: once a line that is no guard opener has been taken, an active guard
\* has a depth above 0; the tracker is active at depth <= 0 only right after
\* a guard-opener line; a log call is judged under a guard only when the
\* guard is active at a depth above 0.
C30_ActiveGuardHasPositiveDepth ==
    /\ (pc = "main" /\ in_log_enabled_block /\ brace_depth <= 0) =>
          /\ i >= 1
          /\ log_enabled_pattern_search(lines[i]) # None
    /\ (pc = "main" /\ i >= 1 /\ in_log_enabled_block
            /\ log_enabled_pattern_search(lines[i]) = None) => brace_depth > 0
    /\ (pc = "join" /\ in_log_enabled_block) => brace_depth > 0

\* C30 witness: a guard opener left the tracker active at depth 0, the next
\* line, no opener, raised the depth, and the guard is active at depth 1
\* when the third line is reached.
C30_Witness ==
    /\ pc = "main" /\ i = 2 /\ Len(lines) = 3
    /\ log_enabled_pattern_search(lines[1]) # None
    /\ BraceDelta(lines[1]) = 0
    /\ log_enabled_pattern_search(lines[2]) = None
    /\ in_log_enabled_block
    /\ brace_depth = 1

(***************************************************************************)
(* Claims about scan_directory and get_summary, under Spec.                *)
(***************************************************************************)
\* the sum of the values of a finite map
RECURSIVE SumValues(_)
SumValues(f) ==
    IF DOMAIN f = {} THEN 0
    ELSE LET x == CHOOSE y \in DOMAIN f : TRUE
         IN  f[x] + SumValues([y \in DOMAIN f \ {x} |-> f[y]])

\* C4: after every merge, over any sequence of scan_directory calls, the
\* Summary has production = total - test and total = sum of by_level =
\* sum of by_module.
C4_SummaryTotalsAgree ==
    /\ get_summary.production = get_summary.total - get_summary.test
    /\ get_summary.total = SumValues(get_summary.by_level)
    /\ get_summary.total = SumValues(get_summary.by_module)

\* the checker is in, or has just completed, its first scan_directory call:
\* every FileResult it holds was merged exactly once
FirstScan == scans = 0 \/ (scans = 1 /\ pc = "idle")

\* every order in which the elements of a finite set can be taken
OrderingsOf(S) ==
    {q \in [1..Cardinality(S) -> S] :
        \A a, b \in 1..Cardinality(S) : a # b => q[a] # q[b]}

\* a new checker into which the FileResults q[k..] are merged one by one
RECURSIVE MergeAll(_, _, _, _)
MergeAll(fs, total, q, k) ==
    IF k > Len(q) THEN SummaryOf(fs, total)
    ELSE MergeAll(PutStats(fs, q[k]), AddCount(total, q[k]), q, k + 1)

\* C5: merging a fixed set of FileResults in any order yields the same
\* Summary: whatever order scan_directory took the files in, its Summary is
\* the one every sequential fold of the same FileResults yields.
C5_MergeOrderIrrelevant ==
    FirstScan =>
        \A q \in OrderingsOf({files[p] : p \in DOMAIN files}) :
            MergeAll(<<>>, 0, q, 1) = get_summary

\* C5 witness: a first scan has merged two FileResults with different
\* numbers of findings.
C5_Witness ==
    /\ pc = "idle" /\ scans = 1
    /\ \E p, q \in DOMAIN files : Len(files[p].logs) # Len(files[q].logs)

\* C6: scanning an unchanged tree twice yields the same Summary: the
\* Summary after the second scan equals the Summary after the first.
C6_RescanSameSummary ==
    \A a, b \in DOMAIN reports :
        (reports[a].scan >= 1 /\ reports[b].scan >= 1)
            => reports[a].summary = reports[b].summary

\* the lines of a file that the specification reports: a statement starts
\* there, has a placeholder and lies under no guard of its level
ReportableLines(ls) ==
    {n \in StatementLines(ls) :
        /\ HasPlaceholder(JoinedText(ls, n))
        /\ ~UnderGuard(ls, n, MacroOn(ls[n]))}

\* the files of the tree that scan_directory hands to check_file
Candidates ==
    {p \in DOMAIN tree :
        IsRustFile(p) /\ ~Contains(JoinPath(root_dir, p), TargetFragment)}

\* C7: a file that cannot be read is skipped and contributes nothing to the
\* Summary, and the scan goes on: every other candidate file is analysed
\* and merged whole.
C7_UnreadableFileSkipped ==
    /\ \A p \in DOMAIN files : tree[p].readable
    /\ (pc = "idle" /\ scans = 1) =>
          /\ DOMAIN files =
                {p \in Candidates :
                    tree[p].readable /\ ReportableLines(tree[p].lines) # {}}
          /\ \A p \in DOMAIN files :
                {files[p].logs[k].line_number : k \in DOMAIN files[p].logs}
                    = ReportableLines(tree[p].lines)
          /\ total_logs = SumValues([p \in DOMAIN files |-> Len(files[p].logs)])
          /\ get_summary.total =
                SumValues([p \in {q \in Candidates : tree[q].readable} |->
                              Cardinality(ReportableLines(tree[p].lines))])

\* C7 witness: a scan is complete over a tree with an unreadable candidate
\* file and a readable one, and only the readable one is in the Summary.
C7_Witness ==
    /\ pc = "idle" /\ scans = 1
    /\ \E p, q \in Candidates :
          /\ ~tree[p].readable
          /\ tree[q].readable
          /\ DOMAIN files = {q}
          /\ get_summary.total = Len(files[q].logs)

\* a path contains at least one of a list of fragments
ContainsAny(path, fragments) ==
    \E k \in DOMAIN fragments :
        \E p \in 1..(Len(path) - Len(fragments[k]) + 1) :
            SubSeq(path, p, p + Len(fragments[k]) - 1) = fragments[k]

\* every Finding in existence: those of the aggregator, those of the
\* check_file call in progress and those of the result being handed over
HeldLogs ==
    {LogAt(files, r) : r \in LogRefs(files)}
        \cup (IF stats # None THEN Range(stats.logs) ELSE {})
        \cup (IF result # None THEN Range(result.logs) ELSE {})

\* C12: a Finding's is_hot_path (is_test) flag is true exactly when the
\* relative path of its file contains a hot-path (test) fragment; the flags
\* are fixed for the whole of one check_file call, so the Findings of one
\* file carry the same flags, and a Finding's flags never change afterwards.
C12_FlagsFollowRelativePath ==
    /\ [](\A log \in HeldLogs :
            /\ log.is_hot_path = ContainsAny(log.file_path, HOT_PATH_PATTERNS)
            /\ log.is_test = ContainsAny(log.file_path, SKIP_PATTERNS)
            /\ \A other \in HeldLogs :
                  other.file_path = log.file_path =>
                      /\ other.is_hot_path = log.is_hot_path
                      /\ other.is_test = log.is_test)
    /\ [](stats # None =>
            /\ stats.path = rel_path
            /\ rel_path = RelativeTo(file_path, root_dir)
            /\ \A k \in DOMAIN stats.logs : stats.logs[k].file_path = rel_path)
    /\ [][(pc \in {"open", "main", "join"} /\ pc' # "returned") =>
            (is_hot' = is_hot /\ is_test' = is_test)]_vars
    /\ [][/\ (stats # None /\ stats' # None) =>
                \A k \in DOMAIN stats.logs : stats'.logs[k] = stats.logs[k]
          /\ \A p \in DOMAIN files \cap DOMAIN files' :
                \A k \in DOMAIN files[p].logs \cap DOMAIN files'[p].logs :
                    /\ files'[p].logs[k].is_hot_path = files[p].logs[k].is_hot_path
                    /\ files'[p].logs[k].is_test = files[p].logs[k].is_test]_vars

\* C12 witness: a scan has merged two Findings of a hot-path file, both
\* flagged hot and not test, and a Finding of a file under a tests
\* directory, flagged test and not hot.
C12_Witness ==
    /\ pc = "idle" /\ scans = 1
    /\ PathMempool \in DOMAIN files /\ PathTest \in DOMAIN files
    /\ Len(files[PathMempool].logs) = 2
    /\ \A k \in 1..2 : /\ files[PathMempool].logs[k].is_hot_path
                        /\ ~files[PathMempool].logs[k].is_test
    /\ \A k \in DOMAIN files[PathTest].logs :
          /\ files[PathTest].logs[k].is_test
          /\ ~files[PathTest].logs[k].is_hot_path

\* the '/'-separated segments of a path, in order
RECURSIVE Segments(_)
Segments(path) ==
    LET slashes == {k \in DOMAIN path : path[k] = "/"}
    IN  IF slashes = {} THEN <<path>>
        ELSE LET first == CHOOSE k \in slashes : \A h \in slashes : k <= h
             IN  <<SubSeq(path, 1, first - 1)>>
                     \o Segments(SubSeq(path, first + 1, Len(path)))

\* the first two segments joined by '/', or the single segment
ModuleKey(path) ==
    IF Len(Segments(path)) >= 2
    THEN Segments(path)[1] \o <<"/">> \o Segments(path)[2]
    ELSE Segments(path)[1]

\* C13: get_summary counts each Finding under exactly one module key, the
\* first two '/'-separated segments of its file path joined by '/', or the
\* single segment of a path that has only one (whenever scan_directory is
\* between two files or over: the files map changes at no other point).
C13_OneModuleKeyPerFinding ==
    (pc \in {"scan", "idle"}) =>
        LET by_module == get_summary.by_module
            keys == [r \in LogRefs(files) |-> ModuleKey(LogAt(files, r).file_path)]
        IN  /\ DOMAIN by_module = {keys[r] : r \in LogRefs(files)}
            /\ \A key \in DOMAIN by_module :
                  by_module[key] = Cardinality({r \in LogRefs(files) : keys[r] = key})
            /\ SumValues(by_module) = Cardinality(LogRefs(files))

\* C13 witness: the Summary of a scan counts one Finding under the single
\* segment m.rs and two Findings of daemon/src/core/mempool.rs under
\* daemon/src.
C13_Witness ==
    /\ pc = "idle" /\ scans = 1
    /\ DOMAIN files = {PathMain, PathMempool}
    /\ DOMAIN get_summary.by_module = {PathMain, SubSeq(PathMempool, 1, 10)}
    /\ get_summary.by_module[PathMain] = 1
    /\ get_summary.by_module[SubSeq(PathMempool, 1, 10)] = 2

\* the candidate files that can be read and hold a reportable statement
FilesWithFindings ==
    {p \in Candidates : tree[p].readable /\ ReportableLines(tree[p].lines) # {}}

\* C14: a file without Findings yields no FileResult and is never stored:
\* every FileResult returned or stored has count >= 1 (the stored ones are
\* looked at whenever scan_directory is between two files or over), and
\* after a scan the Summary field files is the number of distinct scanned
\* files that have at least one Finding.
C14_FilesCountsFilesWithFindings ==
    /\ [](/\ result # None => Len(result.logs) >= 1
          /\ (pc \in {"scan", "idle"}) =>
                /\ \A p \in DOMAIN files :
                      /\ files[p].path = p
                      /\ Len(files[p].logs) >= 1
                      /\ p \in FilesWithFindings
                /\ get_summary.files = Cardinality(DOMAIN files)
          /\ (pc = "idle" /\ scans >= 1) =>
                /\ DOMAIN files = FilesWithFindings
                /\ get_summary.files = Cardinality(FilesWithFindings))
    /\ [][(pc = "returned" /\ result = None) => files' = files]_vars

\* C14 witness: a scan is complete over a tree of two readable candidate
\* files, one with Findings and one without: files is 1 and only the first
\* is stored.
C14_Witness ==
    /\ pc = "idle" /\ scans = 1
    /\ \E p, q \in Candidates :
          /\ tree[p].readable /\ tree[q].readable
          /\ ReportableLines(tree[p].lines) # {}
          /\ ReportableLines(tree[q].lines) = {}
          /\ StatementLines(tree[q].lines) # {}
          /\ DOMAIN files = {p}
          /\ get_summary.files = 1

\* C15: a file whose relative path contains a skip-path fragment is
\* excluded from scanning outright: check_file never analyses it and no
\* Finding of it exists, in the aggregator or anywhere else.
C15_SkipFragmentFilesNotScanned ==
    /\ (pc \in {"open", "main", "join"} /\ rel_path # None) =>
          ~ContainsAny(rel_path, SKIP_PATTERNS)
    /\ \A log \in HeldLogs : ~ContainsAny(log.file_path, SKIP_PATTERNS)
    /\ \A k \in DOMAIN reports : reports[k].summary.test = 0

\* the Findings held by the aggregator
StoredLogs == {LogAt(files, r) : r \in LogRefs(files)}

\* C16: the aggregator is append-only: whatever is merged into a checker,
\* a Finding it holds is never removed or replaced, so the set of Findings
\* it holds only grows (a step that constructs a new checker aside).
C16_AggregatorAppendOnly ==
    [][scans' >= scans => StoredLogs \subseteq StoredLogs']_vars

\* C17: check_file calls share no mutable state: each call starts its file
\* with the tracker in its initial state, whatever the file before it left
\* open; what it finds is determined by the file's lines and relative path
\* alone (the statements reportable in that file, and the result stored for
\* the file by an earlier scan in another order); and no step of check_file
\* changes the files map or the total counter of the checker.
C17_CheckFileCallsIndependent ==
    /\ []((pc = "main" /\ i = 0) =>
            /\ ~in_log_enabled_block
            /\ brace_depth = 0
            /\ log_enabled_level = None
            /\ stats = [path |-> rel_path, logs |-> <<>>])
    /\ [](LoopExit =>
            /\ lines = tree[rel_path].lines
            /\ {stats.logs[k].line_number : k \in DOMAIN stats.logs}
                  = ReportableLines(lines)
            /\ \A k \in DOMAIN stats.logs : stats.logs[k].file_path = rel_path
            /\ rel_path \in DOMAIN files => files[rel_path] = stats)
    /\ [][(pc \in {"call", "open", "main", "join"}) =>
            (files' = files /\ total_logs' = total_logs)]_vars

\* C17 witness: in one scan check_file has returned from a file that ends
\* inside a debug guard, and now starts the other file of the tree, whose
\* first line is a debug! call with a placeholder, with no guard active.
C17_Witness ==
    /\ pc = "main" /\ i = 0 /\ caller = "scan"
    /\ rust_files = {}
    /\ ~in_log_enabled_block
    /\ lines = FileOneDebug
    /\ \E q \in Candidates :
          /\ q # rel_path
          /\ tree[q].readable
          /\ tree[q].lines = FileOpenGuard
    /\ Cardinality(Candidates) = 2

\* C8: with an invalid or missing root the run aborts before any file is
\* scanned, and no Summary is reported as if the scan had succeeded.
C8_InvalidRootAborts ==
    \A k \in DOMAIN reports : reports[k].scan >= 1 => root_ok

\* the directory name scan_directory means to leave out
kw_target == <<"t","a","r","g","e","t">>

\* the file of this relative path lies in a directory named target
UnderTargetDirectory(path) ==
    \E k \in 1..(Len(Segments(path)) - 1) : Segments(path)[k] = kw_target

\* C25: a file that lies under a directory named target is pruned entirely:
\* check_file is never applied to it, the checker stores no Finding of it,
\* and no Summary reported counts one; (every other *.rs file is analysed).
C25_TargetFilesPruned ==
    /\ (pc \in {"open", "main", "join"} /\ rel_path # None) =>
          ~UnderTargetDirectory(rel_path)
    /\ \A q \in DOMAIN files : ~UnderTargetDirectory(q)
    /\ \A k \in DOMAIN reports :
          \A m \in DOMAIN reports[k].summary.by_module :
             Segments(m)[1] # kw_target

====
